---- MODULE Spec2Model ----
(***************************************************************************)
(* Model of src/postbuild.py: the AxfUploadClient class and main().        *)
(*                                                                         *)
(* Two threads of control exist in the program:                            *)
(*   - the foreground thread running main() and, inside it,                *)
(*     AxfUploadClient.upload_axf_file and AxfUploadClient.cleanup;        *)
(*   - paho's background loop thread (started by loop_start), which calls  *)
(*     _on_connect and _on_message.                                        *)
(* The foreground thread is modelled one statement per step (pc is the     *)
(* position in main/cleanup, upc the position in upload_axf_file), so that *)
(* every interleaving of _on_message with the orchestrator is explored.    *)
(* A KeyboardInterrupt may reach the foreground thread at any statement of *)
(* main's try block.                                                       *)
(***************************************************************************)
EXTENDS Integers, Sequences, FiniteSets, TLC

(***************************************************************************)
(* Bounds of the model.                                                    *)
(***************************************************************************)
\* upload ids are drawn from 1..MaxId (random.randint(0, int(100e9)) in main)
MaxId == 2
\* number of inbound messages the broker delivers in one run
MaxDeliveries == 2
\* number of calls of upload_axf_file made on one client object
MaxAttempts == 2

\* status code upload_file_to_s3 accepts as success
HTTP_OK == 200

Ids == 1..MaxId
Urls == {"url_a", "url_b"}
HttpStatuses == {HTTP_OK, 403}

\* marker for a key that a JSON object does not contain (dict.get -> None)
Absent == "absent"
\* Python's None in a variable that otherwise holds a name or a bool
None == "None"
\* None where an upload id is expected (ids are 1..MaxId)
NoId == 0
\* no PUT was made
NoStatus == 0

(***************************************************************************)
(* Inbound payloads.  A raw payload is what msg.payload.decode() yields;   *)
(* json.loads either raises or gives a Python value.  The values that the  *)
(* orchestrator distinguishes are: a dict (with or without the keys        *)
(* upload_id and presigned_url), a number, and a string.                   *)
(***************************************************************************)
PyValue(k, i, u) == [kind |-> k, upload_id |-> i, presigned_url |-> u]

PyNone == PyValue("none", NoId, Absent)

\* upload_id = NoId: the object has no upload_id key
DictValues == {PyValue("dict", i, u) : i \in Ids \cup {NoId}, u \in Urls \cup {Absent}}

\* 7 and "presigned_url": valid JSON documents that are not objects
NonDictValues == {PyValue("number", NoId, Absent), PyValue("string", NoId, Absent)}

RawPayloads ==
    {[text |-> "json", value |-> v] : v \in DictValues \cup NonDictValues}
        \cup {[text |-> "garbage", value |-> PyNone]}

\* a parser that never raises: any text is taken as a string value
json_loads_Lenient(raw) ==
    IF raw.text = "json" THEN [ok |-> TRUE, value |-> raw.value]
                         ELSE [ok |-> TRUE, value |-> PyValue("string", NoId, Absent)]

\* json.loads(msg.payload.decode()): ok = FALSE stands for JSONDecodeError
json_loads(raw) ==
    IF raw.text = "json" THEN [ok |-> TRUE, value |-> raw.value]
                         ELSE [ok |-> FALSE, value |-> PyNone]

\* Python truth value of a stored response: None and {} are false
Truthy(v) ==
    CASE v.kind = "none" -> FALSE
      [] v.kind = "dict" -> v.upload_id # NoId \/ v.presigned_url # Absent
      [] OTHER -> TRUE

\* 'presigned_url' in v : "ok", "missing", or "raise" (TypeError on a number)
HasUrlKey(v) ==
    CASE v.kind = "dict" -> IF v.presigned_url # Absent THEN "ok" ELSE "missing"
      [] v.kind = "string" -> "ok"
      [] OTHER -> "raise"

\* v.get('upload_id') != upload_id : "match", "mismatch", or "raise"
\* (AttributeError: only a dict has .get)
IdCheck(v, id) ==
    IF v.kind # "dict" THEN "raise"
    ELSE IF v.upload_id = id THEN "match" ELSE "mismatch"

\* v['presigned_url'] : the url, or "raise" (KeyError / TypeError)
UrlOf(v) ==
    IF v.kind = "dict" /\ v.presigned_url # Absent THEN v.presigned_url ELSE "raise"

VARIABLES
    \* ---- process environment (inputs of main) ----
    cert_data,          \* ULOGGER_CERT_DATA is non-empty
    key_data,           \* ULOGGER_KEY_DATA is non-empty
    fileExists,         \* the file named by --file exists
    \* ---- main() ----
    pc,                 \* position of the foreground thread in main / cleanup
    temp_cert_file,     \* main's local: None or the ephemeral file's name
    temp_key_file,
    cert_path,          \* "arg" or the ephemeral file's name
    key_path,
    files,              \* ephemeral files that exist on disk
    created,            \* history: ephemeral files main created
    interrupted,        \* history: a KeyboardInterrupt reached the foreground thread
    intPc,              \* history: pc and upc at that moment
    intUpc,
    \* ---- AxfUploadClient fields ----
    client,             \* the client object exists (constructor returned)
    mqtt_client,        \* None or "handle"
    received_response,  \* threading.Event flag
    upload_response,
    current_upload_id,
    c_temp_cert_file,   \* self._temp_cert_file
    c_temp_key_file,
    \* ---- transport session (paho client + broker) ----
    sock,               \* connect() returned: a connection to the broker exists
    connack,            \* "none", "pending", "accepted" or "refused" (rc of _on_connect)
    loop_running,       \* loop_start() called and loop_stop() not yet
    subs,               \* upload ids whose reply topic is subscribed
    published,          \* upload ids whose request reached the broker
    mpc,                \* position of the loop thread inside _on_message
    loopStopCalled,     \* history: cleanup called loop_stop()
    disconnectCalled,   \* history: cleanup called disconnect()
    \* ---- upload_axf_file ----
    upc,                \* position inside upload_axf_file
    upload_id,          \* parameter
    presigned_url,      \* local read at line 264
    result,             \* None, "True" or "False": the value returned
    reason,             \* history: which return statement was taken
    \* ---- history of the run ----
    log,                \* orchestrator events of the attempt, in order
    nDeliv,             \* number of _on_message calls so far
    lastMsg,            \* the raw payload of the latest _on_message call
    writes,             \* assignments to upload_response by _on_message (line 114)
    resolver,           \* the value whose set() turned the event flag on
    s3Calls,            \* urls upload_file_to_s3 was invoked with
    s3Status,           \* NoStatus or the status of the PUT of this attempt
    \* ---- process exit ----
    ids,                \* None, "ok" or "missing": outcome of lines 317-344
    exit_code,          \* None while the process runs, then "0" or "1"
    \* ---- history of the calls of the attempt ----
    attempt,            \* number of the current call of upload_axf_file
    pubCalls,           \* calls of mqtt_client.publish (line 142)
    subFailed,          \* the subscribe of line 240 did not subscribe
    validated           \* the value that passed the check of line 259

envVars == <<cert_data, key_data, fileExists>>
mainRest == <<temp_cert_file, temp_key_file, cert_path, key_path, files, created,
              interrupted, intPc, intUpc>>
mainVars == <<pc, mainRest>>
clientVars == <<client, mqtt_client, received_response, upload_response,
                current_upload_id, c_temp_cert_file, c_temp_key_file>>
sessionVars == <<sock, connack, loop_running, subs, published, mpc, loopStopCalled,
                 disconnectCalled>>
uploadVars == <<upc, upload_id, presigned_url, result, reason>>
histVars == <<log, nDeliv, lastMsg, writes, resolver, s3Calls, s3Status>>
exitVars == <<ids, exit_code>>
callVars == <<attempt, pubCalls, subFailed, validated>>

vars == <<envVars, mainVars, clientVars, sessionVars, uploadVars, histVars, exitVars,
          callVars>>

NoMsg == [text |-> "none", value |-> PyNone]

\* the state of a process before any statement ran, with the field values
\* AxfUploadClient.__init__ gives (lines 58-63)
InitFields ==
    /\ cert_data \in BOOLEAN
    /\ key_data \in BOOLEAN
    /\ fileExists \in BOOLEAN
    /\ temp_cert_file = None
    /\ temp_key_file = None
    /\ cert_path = "arg"
    /\ key_path = "arg"
    /\ files = {}
    /\ created = {}
    /\ interrupted = FALSE
    /\ intPc = None
    /\ intUpc = None
    /\ mqtt_client = None
    /\ received_response = FALSE
    /\ upload_response = PyNone
    /\ current_upload_id = NoId
    /\ c_temp_cert_file = None
    /\ c_temp_key_file = None
    /\ sock = FALSE
    /\ connack = "none"
    /\ mpc = "idle"
    /\ loop_running = FALSE
    /\ subs = {}
    /\ published = {}
    /\ loopStopCalled = FALSE
    /\ disconnectCalled = FALSE
    /\ upc = "idle"
    /\ upload_id = NoId
    /\ presigned_url = None
    /\ result = None
    /\ reason = None
    /\ log = <<>>
    /\ nDeliv = 0
    /\ lastMsg = NoMsg
    /\ writes = 0
    /\ resolver = PyNone
    /\ s3Calls = {}
    /\ s3Status = NoStatus
    /\ exit_code = None
    /\ attempt = 1
    /\ pubCalls = 0
    /\ subFailed = FALSE
    /\ validated = PyNone

\* main() starts at line 314 with the parsed arguments
Init ==
    /\ InitFields
    /\ pc = "resolve_ids"
    /\ ids = None
    /\ client = FALSE

(***************************************************************************)
(* main(): the required identifiers, lines 316-344.                        *)
(***************************************************************************)
\* where an identifier comes from: the command line, an environment variable
\* holding digits, an environment variable holding other text, or nowhere
IdSources == {"arg", "env_int", "env_text", "unset"}

\* line 317-318, 321-326, 332-344: customer_id and application_id; the
\* command line gives an int (argparse type=int), the environment a string
\* that int() must accept
ResolveInt(src) == src \in {"arg", "env_int"}

\* line 319, 327-329: device_type is a string, any text will do
ResolveStr(src) == src # "unset"

\* line 316-344: exit(1) as soon as one identifier cannot be resolved
ResolveIds ==
    /\ pc = "resolve_ids"
    /\ \E customer \in IdSources, application \in IdSources, device \in IdSources :
          IF ResolveInt(customer) /\ ResolveInt(application) /\ ResolveStr(device)
          THEN /\ ids' = "ok"
               /\ pc' = "stage_cert"
               /\ UNCHANGED exit_code
          ELSE /\ ids' = "missing"
               /\ pc' = "done"
               /\ exit_code' = "1"
    /\ UNCHANGED <<cert_data, key_data, fileExists>>
    /\ UNCHANGED <<mainRest, clientVars, sessionVars, uploadVars, histVars, callVars>>

(***************************************************************************)
(* main(): credential staging, lines 359-374.                              *)
(***************************************************************************)
\* line 360-362: tempfile.mkstemp(suffix='.crt') creates the file
StageCert ==
    /\ pc = "stage_cert"
    /\ IF cert_data
       THEN /\ files' = files \cup {"crt"}
            /\ created' = created \cup {"crt"}
            /\ temp_cert_file' = "crt"
            /\ pc' = "write_cert"
       ELSE /\ pc' = "stage_key"
            /\ UNCHANGED <<files, created, temp_cert_file>>
    /\ UNCHANGED <<temp_key_file, cert_path, key_path, interrupted, intPc, intUpc>>
    /\ UNCHANGED <<envVars, exitVars, callVars, clientVars, sessionVars, uploadVars, histVars>>

\* line 363-365: the write succeeds, or raises OSError (caught at line 411)
WriteCert ==
    /\ pc = "write_cert"
    /\ \/ /\ cert_path' = temp_cert_file
          /\ pc' = "stage_key"
       \/ /\ pc' = "except_exc"
          /\ UNCHANGED cert_path
    /\ UNCHANGED <<temp_cert_file, temp_key_file, key_path, files, created,
                   interrupted, intPc, intUpc>>
    /\ UNCHANGED <<envVars, exitVars, callVars, clientVars, sessionVars, uploadVars, histVars>>

\* line 368-370
StageKey ==
    /\ pc = "stage_key"
    /\ IF key_data
       THEN /\ files' = files \cup {"key"}
            /\ created' = created \cup {"key"}
            /\ temp_key_file' = "key"
            /\ pc' = "write_key"
       ELSE /\ pc' = "construct"
            /\ UNCHANGED <<files, created, temp_key_file>>
    /\ UNCHANGED <<temp_cert_file, cert_path, key_path, interrupted, intPc, intUpc>>
    /\ UNCHANGED <<envVars, exitVars, callVars, clientVars, sessionVars, uploadVars, histVars>>

\* line 371-373
WriteKey ==
    /\ pc = "write_key"
    /\ \/ /\ key_path' = temp_key_file
          /\ pc' = "construct"
       \/ /\ pc' = "except_exc"
          /\ UNCHANGED key_path
    /\ UNCHANGED <<temp_cert_file, temp_key_file, cert_path, files, created,
                   interrupted, intPc, intUpc>>
    /\ UNCHANGED <<envVars, exitVars, callVars, clientVars, sessionVars, uploadVars, histVars>>

\* os.path.exists on a credential path: an ephemeral file is looked up on
\* disk; argExists says whether the file named on the command line exists
PathExists(path, argExists) == IF path = "arg" THEN argExists ELSE path \in files

\* line 377-382 and __init__ (lines 52-67): FileNotFoundError when a
\* credential file is missing
Construct ==
    /\ pc = "construct"
    /\ \E argCertExists \in BOOLEAN, argKeyExists \in BOOLEAN :
          IF PathExists(cert_path, argCertExists) /\ PathExists(key_path, argKeyExists)
          THEN /\ client' = TRUE
               /\ pc' = "store"
          ELSE /\ pc' = "except_exc"
               /\ UNCHANGED client
    /\ UNCHANGED <<mqtt_client, received_response, upload_response, current_upload_id,
                   c_temp_cert_file, c_temp_key_file>>
    /\ UNCHANGED <<temp_cert_file, temp_key_file, cert_path, key_path, files, created,
                   interrupted, intPc, intUpc>>
    /\ UNCHANGED <<envVars, exitVars, callVars, sessionVars, uploadVars, histVars>>

\* line 385-389
StoreTempPaths ==
    /\ pc = "store"
    /\ c_temp_cert_file' = temp_cert_file
    /\ c_temp_key_file' = temp_key_file
    /\ pc' = "call_upload"
    /\ UNCHANGED <<client, mqtt_client, received_response, upload_response,
                   current_upload_id>>
    /\ UNCHANGED <<temp_cert_file, temp_key_file, cert_path, key_path, files, created,
                   interrupted, intPc, intUpc>>
    /\ UNCHANGED <<envVars, exitVars, callVars, sessionVars, uploadVars, histVars>>

(***************************************************************************)
(* AxfUploadClient.upload_axf_file, lines 207-273.                         *)
(***************************************************************************)
\* the statements of the try block in program order
UploadSteps_PublishBeforeRegister ==
    <<"check_file", "setup", "subscribe", "publish", "clear_event", "clear_result",
      "set_id", "wait", "chk_truthy", "chk_url", "chk_id", "read_url", "transfer",
      "put_blocked", "ret_true">>

\* the file is looked at only when its bytes are needed
UploadSteps_CheckFileLate ==
    <<"clear_event", "clear_result", "set_id", "setup", "subscribe", "publish", "wait",
      "chk_truthy", "chk_url", "chk_id", "read_url", "check_file", "transfer",
      "put_blocked", "ret_true">>

UploadSteps ==
    <<"check_file", "clear_event", "clear_result", "set_id", "setup", "subscribe",
      "publish", "wait", "chk_truthy", "chk_url", "chk_id", "read_url", "transfer",
      "put_blocked", "ret_true">>

\* the statement that follows `step`
After(step) ==
    LET i == CHOOSE k \in 1..Len(UploadSteps) : UploadSteps[k] = step
    IN  UploadSteps[i + 1]

InUpload(step) == pc = "in_upload" /\ upc = step

\* fall through to the next statement
Goto(step) ==
    /\ upc' = step
    /\ UNCHANGED <<pc, result, reason>>

\* a return statement of upload_axf_file: control is back in main at line 401
Return(val, why) ==
    /\ upc' = "returned"
    /\ result' = val
    /\ reason' = why
    /\ pc' = "log_result"

\* main, line 392-399: upload_id=random.randint(...); the call enters
\* upload_axf_file at its first statement
CallUpload ==
    /\ pc = "call_upload"
    /\ \E id \in Ids : upload_id' = id
    /\ upc' = UploadSteps[1]
    /\ pc' = "in_upload"
    /\ UNCHANGED <<presigned_url, result, reason>>
    /\ UNCHANGED <<temp_cert_file, temp_key_file, cert_path, key_path, files, created,
                   interrupted, intPc, intUpc>>
    /\ UNCHANGED <<envVars, exitVars, callVars, clientVars, sessionVars, histVars>>

\* line 209-211
CheckFile ==
    /\ InUpload("check_file")
    /\ IF fileExists THEN Goto(After("check_file")) ELSE Return("False", "FileNotFound")
    /\ UNCHANGED <<upload_id, presigned_url>>
    /\ UNCHANGED <<envVars, exitVars, callVars, mainRest, clientVars, sessionVars, histVars>>

\* line 229: self.received_response.clear()
ClearEvent ==
    /\ InUpload("clear_event")
    /\ received_response' = FALSE
    /\ resolver' = PyNone
    /\ log' = Append(log, "clear_event")
    /\ Goto(After("clear_event"))
    /\ UNCHANGED <<client, mqtt_client, upload_response, current_upload_id,
                   c_temp_cert_file, c_temp_key_file>>
    /\ UNCHANGED <<nDeliv, lastMsg, writes, s3Calls, s3Status>>
    /\ UNCHANGED <<upload_id, presigned_url>>
    /\ UNCHANGED <<envVars, exitVars, callVars, mainRest, sessionVars>>

\* line 230: self.upload_response = None
ClearResult ==
    /\ InUpload("clear_result")
    /\ upload_response' = PyNone
    /\ writes' = 0
    /\ log' = Append(log, "clear_result")
    /\ Goto(After("clear_result"))
    /\ UNCHANGED <<client, mqtt_client, received_response, current_upload_id,
                   c_temp_cert_file, c_temp_key_file>>
    /\ UNCHANGED <<nDeliv, lastMsg, resolver, s3Calls, s3Status>>
    /\ UNCHANGED <<upload_id, presigned_url>>
    /\ UNCHANGED <<envVars, exitVars, callVars, mainRest, sessionVars>>

\* line 231: self.current_upload_id = upload_id
SetCurrentId ==
    /\ InUpload("set_id")
    /\ current_upload_id' = upload_id
    /\ log' = Append(log, "set_id")
    /\ Goto(After("set_id"))
    /\ UNCHANGED <<client, mqtt_client, received_response, upload_response,
                   c_temp_cert_file, c_temp_key_file>>
    /\ UNCHANGED <<nDeliv, lastMsg, writes, resolver, s3Calls, s3Status>>
    /\ UNCHANGED <<upload_id, presigned_url>>
    /\ UNCHANGED <<envVars, exitVars, callVars, mainRest, sessionVars>>

\* line 234-236 with setup_mqtt_client (lines 69-97): mqtt.Client() at line 73
\* sets the handle; tls_set (line 76) or connect (line 90) may raise, the
\* exception is re-raised at line 97 and caught at line 271; otherwise the
\* connection exists and loop_start (line 93) starts the loop thread
SetupSession ==
    /\ InUpload("setup")
    /\ IF mqtt_client = None
       THEN /\ mqtt_client' = "handle"
            /\ \/ /\ sock' = TRUE
                  /\ connack' = "pending"
                  /\ loop_running' = TRUE
                  /\ Goto(After("setup"))
               \/ /\ Return("False", "Exception")
                  /\ UNCHANGED <<sock, connack, loop_running>>
       ELSE /\ Goto(After("setup"))
            /\ UNCHANGED <<mqtt_client, sock, connack, loop_running>>
    /\ UNCHANGED <<client, received_response, upload_response, current_upload_id,
                   c_temp_cert_file, c_temp_key_file>>
    /\ UNCHANGED <<subs, published, mpc, loopStopCalled, disconnectCalled>>
    /\ UNCHANGED <<upload_id, presigned_url>>
    /\ UNCHANGED <<envVars, exitVars, callVars, mainRest, histVars>>

\* line 239-241: the value subscribe returns is discarded and no on_subscribe
\* callback is registered (lines 83-84), so the statement falls through
\* whether or not the subscription exists afterwards: without a connection
\* paho returns MQTT_ERR_NO_CONN, and with one the call may still return
\* another code or the broker may refuse the subscription in its SUBACK;
\* without a handle the call raises AttributeError
Subscribe ==
    /\ InUpload("subscribe")
    /\ IF mqtt_client = None
       THEN /\ Return("False", "Exception")
            /\ subFailed' = TRUE
            /\ UNCHANGED <<subs, log>>
       ELSE /\ \E granted \in BOOLEAN :
                  /\ subs' = IF sock /\ granted THEN subs \cup {upload_id} ELSE subs
                  /\ subFailed' = ~(sock /\ granted)
            /\ log' = Append(log, "subscribe")
            /\ Goto(After("subscribe"))
    /\ UNCHANGED <<sock, connack, loop_running, published, mpc, loopStopCalled,
                   disconnectCalled>>
    /\ UNCHANGED <<nDeliv, lastMsg, writes, resolver, s3Calls, s3Status>>
    /\ UNCHANGED <<upload_id, presigned_url>>
    /\ UNCHANGED <<attempt, pubCalls, validated>>
    /\ UNCHANGED <<envVars, exitVars, mainRest, clientVars>>

\* line 244-245 with publish_upload_request (lines 136-153): True only when
\* publish returns MQTT_ERR_SUCCESS; without a connection it does not, and
\* without a handle the AttributeError is caught at line 151
Publish ==
    /\ InUpload("publish")
    /\ pubCalls' = IF mqtt_client # None THEN pubCalls + 1 ELSE pubCalls
    /\ \/ /\ mqtt_client # None
          /\ sock
          /\ published' = published \cup {upload_id}
          /\ log' = Append(log, "publish")
          /\ Goto(After("publish"))
       \/ /\ Return("False", "PublishError")
          /\ UNCHANGED <<published, log>>
    /\ UNCHANGED <<sock, connack, loop_running, subs, mpc, loopStopCalled,
                   disconnectCalled>>
    /\ UNCHANGED <<nDeliv, lastMsg, writes, resolver, s3Calls, s3Status>>
    /\ UNCHANGED <<upload_id, presigned_url>>
    /\ UNCHANGED <<attempt, subFailed, validated>>
    /\ UNCHANGED <<envVars, exitVars, mainRest, clientVars>>

\* line 249: the value Event.wait(timeout) returns is the flag
WaitReturns_IgnoreFlag(flag) == TRUE

\* a wait that only sees a set() made while it is blocked
WaitReturns_MissesEarlierSet(flag) == FALSE

WaitReturns(flag) == flag

\* line 249: wait(timeout) returns True once the flag is set
WaitSignaled ==
    /\ InUpload("wait")
    /\ WaitReturns(received_response)
    /\ Goto(After("wait"))
    /\ UNCHANGED <<upload_id, presigned_url>>
    /\ UNCHANGED <<envVars, exitVars, callVars, mainRest, clientVars, sessionVars, histVars>>

\* line 249-251: the timeout elapses with the flag still clear
WaitTimeout ==
    /\ InUpload("wait")
    /\ ~WaitReturns(received_response)
    /\ Return("False", "Timeout")
    /\ UNCHANGED <<upload_id, presigned_url>>
    /\ UNCHANGED <<envVars, exitVars, callVars, mainRest, clientVars, sessionVars, histVars>>

\* line 254, left operand: not self.upload_response
CheckTruthy ==
    /\ InUpload("chk_truthy")
    /\ IF Truthy(upload_response)
       THEN Goto(After("chk_truthy"))
       ELSE Return("False", "InvalidReply")
    /\ UNCHANGED <<upload_id, presigned_url>>
    /\ UNCHANGED <<envVars, exitVars, callVars, mainRest, clientVars, sessionVars, histVars>>

\* line 254, right operand: 'presigned_url' not in self.upload_response
CheckUrlKey ==
    /\ InUpload("chk_url")
    /\ CASE HasUrlKey(upload_response) = "ok" -> Goto(After("chk_url"))
         [] HasUrlKey(upload_response) = "missing" -> Return("False", "InvalidReply")
         [] OTHER -> Return("False", "Exception")
    /\ UNCHANGED <<upload_id, presigned_url>>
    /\ UNCHANGED <<envVars, exitVars, callVars, mainRest, clientVars, sessionVars, histVars>>

\* line 259-261: self.upload_response.get('upload_id') != upload_id
CheckId ==
    /\ InUpload("chk_id")
    /\ CASE IdCheck(upload_response, upload_id) = "match" -> Goto(After("chk_id"))
         [] IdCheck(upload_response, upload_id) = "mismatch" -> Return("False", "IdMismatch")
         [] OTHER -> Return("False", "Exception")
    /\ validated' = IF IdCheck(upload_response, upload_id) = "match"
                    THEN upload_response ELSE validated
    /\ UNCHANGED <<upload_id, presigned_url>>
    /\ UNCHANGED <<attempt, pubCalls, subFailed>>
    /\ UNCHANGED <<envVars, exitVars, mainRest, clientVars, sessionVars, histVars>>

\* line 264: presigned_url = self.upload_response['presigned_url']
ReadUrl ==
    /\ InUpload("read_url")
    /\ IF UrlOf(upload_response) = "raise"
       THEN /\ Return("False", "Exception")
            /\ UNCHANGED presigned_url
       ELSE /\ presigned_url' = UrlOf(upload_response)
            /\ Goto(After("read_url"))
    /\ UNCHANGED upload_id
    /\ UNCHANGED <<envVars, exitVars, callVars, mainRest, clientVars, sessionVars, histVars>>

\* line 180: the only status upload_file_to_s3 reports as success
S3Success_Inverted(status) == status # HTTP_OK

S3Success(status) == status = HTTP_OK

\* line 265 with upload_file_to_s3, lines 166-178: the file is read and
\* requests.put is called with the url; the call passes no timeout, so the
\* thread stays inside it until the remote endpoint answers or the
\* connection breaks
TransferSend ==
    /\ InUpload("transfer")
    /\ s3Calls' = s3Calls \cup {presigned_url}
    /\ Goto(After("transfer"))
    /\ UNCHANGED <<log, nDeliv, lastMsg, writes, resolver, s3Status>>
    /\ UNCHANGED <<upload_id, presigned_url>>
    /\ UNCHANGED <<envVars, exitVars, callVars, mainRest, clientVars, sessionVars>>

\* line 174-189 and 265-266: requests.put returns the status the remote
\* endpoint sent, or raises (caught at line 187)
TransferResponse ==
    /\ InUpload("put_blocked")
    /\ \/ \E status \in HttpStatuses :
             /\ s3Status' = status
             /\ IF S3Success(status)
                THEN Goto(After("put_blocked"))
                ELSE Return("False", "TransferFailed")
       \/ /\ s3Status' = NoStatus
          /\ Return("False", "TransferFailed")
    /\ UNCHANGED <<log, nDeliv, lastMsg, writes, resolver, s3Calls>>
    /\ UNCHANGED <<upload_id, presigned_url>>
    /\ UNCHANGED <<envVars, exitVars, callVars, mainRest, clientVars, sessionVars>>

\* line 268-269
ReturnTrue ==
    /\ InUpload("ret_true")
    /\ Return("True", "Success")
    /\ UNCHANGED <<upload_id, presigned_url>>
    /\ UNCHANGED <<envVars, exitVars, callVars, mainRest, clientVars, sessionVars, histVars>>

(***************************************************************************)
(* The loop thread: _on_connect and _on_message.                           *)
(***************************************************************************)
\* line 99-104: the broker's CONNACK; both branches only log.  A refused
\* connection is closed by the broker.
OnConnect ==
    /\ loop_running
    /\ connack = "pending"
    /\ pc # "done"
    /\ \/ /\ connack' = "accepted"
          /\ UNCHANGED sock
       \/ /\ connack' = "refused"
          /\ sock' = FALSE
    /\ UNCHANGED <<loop_running, subs, published, mpc, loopStopCalled, disconnectCalled>>
    /\ UNCHANGED <<envVars, exitVars, callVars, mainVars, clientVars, uploadVars, histVars>>

\* the loop thread is handed a message of a subscribed topic
CanDeliver ==
    /\ loop_running
    /\ sock
    /\ connack = "accepted"
    /\ subs # {}
    /\ mpc = "idle"
    /\ pc # "done"
    /\ nDeliv < MaxDeliveries

\* line 108-114: json.loads succeeds and the payload is stored (line 114)
OnMessageStore(raw) ==
    /\ CanDeliver
    /\ json_loads(raw).ok
    /\ upload_response' = json_loads(raw).value
    /\ writes' = writes + 1
    /\ mpc' = "signal"
    /\ nDeliv' = nDeliv + 1
    /\ lastMsg' = raw
    /\ UNCHANGED <<client, mqtt_client, received_response, current_upload_id,
                   c_temp_cert_file, c_temp_key_file>>
    /\ UNCHANGED <<sock, connack, loop_running, subs, published, loopStopCalled,
                   disconnectCalled>>
    /\ UNCHANGED <<log, resolver, s3Calls, s3Status>>
    /\ UNCHANGED <<envVars, exitVars, callVars, mainVars, uploadVars>>

\* line 115: self.received_response.set()
OnMessageSignal ==
    /\ mpc = "signal"
    /\ pc # "done"
    /\ received_response' = TRUE
    /\ resolver' = IF received_response THEN resolver ELSE json_loads(lastMsg).value
    /\ mpc' = "idle"
    /\ UNCHANGED <<client, mqtt_client, upload_response, current_upload_id,
                   c_temp_cert_file, c_temp_key_file>>
    /\ UNCHANGED <<sock, connack, loop_running, subs, published, loopStopCalled,
                   disconnectCalled>>
    /\ UNCHANGED <<log, nDeliv, lastMsg, writes, s3Calls, s3Status>>
    /\ UNCHANGED <<envVars, exitVars, callVars, mainVars, uploadVars>>

\* line 110, 117-118: json.loads raises JSONDecodeError; logged, nothing stored
OnMessageDiscard(raw) ==
    /\ CanDeliver
    /\ ~json_loads(raw).ok
    /\ nDeliv' = nDeliv + 1
    /\ lastMsg' = raw
    /\ UNCHANGED <<log, writes, resolver, s3Calls, s3Status>>
    /\ UNCHANGED <<envVars, exitVars, callVars, mainVars, clientVars, sessionVars, uploadVars>>

(***************************************************************************)
(* main() after the upload: lines 401-427, with AxfUploadClient.cleanup.   *)
(***************************************************************************)
\* line 401-404
LogResult ==
    /\ pc = "log_result"
    /\ pc' = "cl_loop_stop"
    /\ UNCHANGED <<envVars, exitVars, callVars, mainRest, clientVars, sessionVars, uploadVars, histVars>>

\* line 277-278: loop_stop() joins the loop thread
CleanupLoopStop ==
    /\ pc = "cl_loop_stop"
    /\ IF mqtt_client # None
       THEN /\ mpc = "idle"
            /\ loop_running' = FALSE
            /\ loopStopCalled' = TRUE
            /\ pc' = "cl_disconnect"
       ELSE /\ pc' = "cl_unlink_cert"
            /\ UNCHANGED <<loop_running, loopStopCalled>>
    /\ UNCHANGED <<sock, connack, subs, published, mpc, disconnectCalled>>
    /\ UNCHANGED <<envVars, exitVars, callVars, mainRest, clientVars, uploadVars, histVars>>

\* line 279-280
CleanupDisconnect ==
    /\ pc = "cl_disconnect"
    /\ sock' = FALSE
    /\ disconnectCalled' = TRUE
    /\ pc' = "cl_unlink_cert"
    /\ UNCHANGED <<connack, loop_running, subs, published, mpc, loopStopCalled>>
    /\ UNCHANGED <<envVars, exitVars, callVars, mainRest, clientVars, uploadVars, histVars>>

\* line 283-288: os.unlink; an exception is caught and logged
CleanupUnlinkCert ==
    /\ pc = "cl_unlink_cert"
    /\ files' = IF c_temp_cert_file # None THEN files \ {c_temp_cert_file} ELSE files
    /\ pc' = "cl_unlink_key"
    /\ UNCHANGED <<temp_cert_file, temp_key_file, cert_path, key_path, created,
                   interrupted, intPc, intUpc>>
    /\ UNCHANGED <<envVars, exitVars, callVars, clientVars, sessionVars, uploadVars, histVars>>

\* line 290-295; cleanup returns and the try block of main ends
CleanupUnlinkKey ==
    /\ pc = "cl_unlink_key"
    /\ files' = IF c_temp_key_file # None THEN files \ {c_temp_key_file} ELSE files
    /\ pc' = "fin_cert"
    /\ UNCHANGED <<temp_cert_file, temp_key_file, cert_path, key_path, created,
                   interrupted, intPc, intUpc>>
    /\ UNCHANGED <<envVars, exitVars, callVars, clientVars, sessionVars, uploadVars, histVars>>

\* the statements of main's try block (lines 359-407)
TryPcs ==
    {"stage_cert", "write_cert", "stage_key", "write_key", "construct", "store",
     "call_upload", "in_upload", "log_result", "cl_loop_stop", "cl_disconnect",
     "cl_unlink_cert", "cl_unlink_key"}

\* SIGINT: KeyboardInterrupt is raised in the foreground thread.  It is not
\* an Exception, so line 271 does not catch it; line 409 does.
Interrupt ==
    /\ pc \in TryPcs
    /\ ~interrupted
    /\ interrupted' = TRUE
    /\ intPc' = pc
    /\ intUpc' = upc
    /\ pc' = "except_kbd"
    /\ UNCHANGED <<temp_cert_file, temp_key_file, cert_path, key_path, files, created>>
    /\ UNCHANGED <<envVars, exitVars, callVars, clientVars, sessionVars, uploadVars, histVars>>

\* line 409-410
ExceptKeyboardInterrupt ==
    /\ pc = "except_kbd"
    /\ pc' = "fin_cert"
    /\ UNCHANGED <<envVars, exitVars, callVars, mainRest, clientVars, sessionVars, uploadVars, histVars>>

\* line 411-412
ExceptException ==
    /\ pc = "except_exc"
    /\ pc' = "fin_cert"
    /\ UNCHANGED <<envVars, exitVars, callVars, mainRest, clientVars, sessionVars, uploadVars, histVars>>

\* line 415 / 422: temp file name set and os.path.exists
ShouldUnlink_Never(temp) == FALSE

ShouldUnlink(temp) == temp # None /\ temp \in files

\* line 415-420
FinallyCert ==
    /\ pc = "fin_cert"
    /\ files' = IF ShouldUnlink(temp_cert_file) THEN files \ {temp_cert_file} ELSE files
    /\ pc' = "fin_key"
    /\ UNCHANGED <<temp_cert_file, temp_key_file, cert_path, key_path, created,
                   interrupted, intPc, intUpc>>
    /\ UNCHANGED <<envVars, exitVars, callVars, clientVars, sessionVars, uploadVars, histVars>>

\* line 422-427; main returns and the process ends with exit status 0
FinallyKey ==
    /\ pc = "fin_key"
    /\ files' = IF ShouldUnlink(temp_key_file) THEN files \ {temp_key_file} ELSE files
    /\ pc' = "done"
    /\ exit_code' = "0"
    /\ UNCHANGED <<temp_cert_file, temp_key_file, cert_path, key_path, created,
                   interrupted, intPc, intUpc>>
    /\ UNCHANGED <<envVars, ids, callVars, clientVars, sessionVars, uploadVars, histVars>>

Next ==
    \/ ResolveIds
    \/ StageCert
    \/ WriteCert
    \/ StageKey
    \/ WriteKey
    \/ Construct
    \/ StoreTempPaths
    \/ CallUpload
    \/ CheckFile
    \/ ClearEvent
    \/ ClearResult
    \/ SetCurrentId
    \/ SetupSession
    \/ Subscribe
    \/ Publish
    \/ WaitSignaled
    \/ WaitTimeout
    \/ CheckTruthy
    \/ CheckUrlKey
    \/ CheckId
    \/ ReadUrl
    \/ TransferSend
    \/ TransferResponse
    \/ ReturnTrue
    \/ OnConnect
    \/ \E raw \in RawPayloads : OnMessageStore(raw)
    \/ OnMessageSignal
    \/ \E raw \in RawPayloads : OnMessageDiscard(raw)
    \/ LogResult
    \/ CleanupLoopStop
    \/ CleanupDisconnect
    \/ CleanupUnlinkCert
    \/ CleanupUnlinkKey
    \/ Interrupt
    \/ ExceptKeyboardInterrupt
    \/ ExceptException
    \/ FinallyCert
    \/ FinallyKey

Spec == Init /\ [][Next]_vars

(***************************************************************************)
(* A program that uses AxfUploadClient as a library: one client object,    *)
(* built from existing credential files, on which upload_axf_file is       *)
(* called again after it returned.  upload_axf_file provides for this: it  *)
(* resets the wait (lines 229-231) and sets the session up only when       *)
(* mqtt_client is None (line 234).                                         *)
(***************************************************************************)
\* the constructor has returned (lines 52-67), nothing was staged
InitReuse ==
    /\ InitFields
    /\ ~cert_data
    /\ ~key_data
    /\ pc = "call_upload"
    /\ ids = "ok"
    /\ client = TRUE

\* the caller has the result of one call and makes the next one; the locals
\* of the finished call are gone and the history of the attempt starts anew
CallAgain ==
    /\ pc = "log_result"
    /\ attempt < MaxAttempts
    /\ attempt' = attempt + 1
    /\ pc' = "call_upload"
    /\ upc' = "idle"
    /\ presigned_url' = None
    /\ result' = None
    /\ reason' = None
    /\ log' = <<>>
    /\ s3Calls' = {}
    /\ s3Status' = NoStatus
    /\ pubCalls' = 0
    /\ subFailed' = FALSE
    /\ validated' = PyNone
    /\ UNCHANGED <<upload_id, nDeliv, lastMsg, writes, resolver>>
    /\ UNCHANGED <<envVars, exitVars, mainRest, clientVars, sessionVars>>

NextReuse ==
    \/ CallUpload
    \/ CheckFile
    \/ ClearEvent
    \/ ClearResult
    \/ SetCurrentId
    \/ SetupSession
    \/ Subscribe
    \/ Publish
    \/ WaitSignaled
    \/ WaitTimeout
    \/ CheckTruthy
    \/ CheckUrlKey
    \/ CheckId
    \/ ReadUrl
    \/ TransferSend
    \/ TransferResponse
    \/ ReturnTrue
    \/ OnConnect
    \/ \E raw \in RawPayloads : OnMessageStore(raw)
    \/ OnMessageSignal
    \/ \E raw \in RawPayloads : OnMessageDiscard(raw)
    \/ CallAgain

SpecReuse == InitReuse /\ [][NextReuse]_vars

(***************************************************************************)
(* Vocabulary of the properties.                                           *)
(***************************************************************************)
Returned == upc = "returned"

\* a dict that passes both checks of lines 254-259 for upload id `id`
ValidReply(v, id) == v.kind = "dict" /\ v.presigned_url # Absent /\ v.upload_id = id

\* the flag has been turned on since line 229 by a payload v
Resolved == resolver # PyNone

\* the three statements of lines 229-231 and the subscribe of line 240
RegistrationEvents == {"clear_event", "clear_result", "set_id", "subscribe"}

\* every registration event is in the log before position i
RegisteredBefore(i) ==
    \A e \in RegistrationEvents : \E j \in 1..(i - 1) : log[j] = e

\* cleanup's loop_stop() and disconnect() were both called
TornDown == loopStopCalled /\ disconnectCalled

\* the latest _on_message call carried a JSON object whose upload_id is
\* present and is not the id registered at line 231
ForeignId(raw) ==
    /\ json_loads(raw).ok
    /\ json_loads(raw).value.kind = "dict"
    /\ json_loads(raw).value.upload_id # NoId
    /\ json_loads(raw).value.upload_id # current_upload_id

\* a step of _on_message that takes a new message (lines 108-114 / 117-118)
TakesMessage == nDeliv' = nDeliv + 1

\* the step of _on_message that executes line 115
SignalStep == mpc = "signal" /\ mpc' = "idle"

(***************************************************************************)
(* C1: when the reply that turns the event flag on carries an upload_id    *)
(* other than the one sent, upload_axf_file returns False and              *)
(* upload_file_to_s3 is not invoked in that attempt.                       *)
(* Refuted: _on_message overwrites upload_response on every delivery, so a *)
(* second message stored between the wake-up and line 259 is the one       *)
(* validated.                                                              *)
(***************************************************************************)
C1_MismatchResolverFails ==
    (Resolved /\ resolver.kind = "dict" /\ resolver.upload_id \in Ids
        /\ resolver.upload_id # upload_id)
        => (s3Calls = {} /\ (Returned => result = "False"))

(***************************************************************************)
(* C2: a message whose embedded upload_id differs from the id of the       *)
(* awaited request is dropped by _on_message: it neither stores a result   *)
(* nor signals the wait.                                                   *)
(* Refuted: _on_message never looks at the id.                             *)
(***************************************************************************)
C2_ForeignIdDropped ==
    /\ [][(TakesMessage /\ ForeignId(lastMsg'))
            => upload_response' = upload_response]_vars
    /\ [][(SignalStep /\ ForeignId(lastMsg))
            => received_response' = received_response]_vars

(***************************************************************************)
(* C3: when the same reply is handed to _on_message a second time, the     *)
(* call is a no-op: the stored result is not written again and the flag    *)
(* does not change (one write per attempt).                                *)
(* Refuted: line 114 assigns on every delivery.                            *)
(***************************************************************************)
C3_RedeliveryIsNoOp ==
    /\ [][(TakesMessage /\ lastMsg' = lastMsg /\ json_loads(lastMsg).ok)
            => (upload_response' = upload_response /\ writes' = writes)]_vars
    /\ [][(SignalStep /\ writes > 1) => received_response' = received_response]_vars

(***************************************************************************)
(* C4: in every execution the wait is registered (event cleared, result    *)
(* cleared, current_upload_id set) and the reply topic subscribed before   *)
(* the request is published; hence no message is handled by _on_message    *)
(* before the registration, and a published request is awaited under its   *)
(* own id.  The order is that of the calls: whether the subscribe call      *)
(* established the subscription is the subject of C13.                     *)
(***************************************************************************)
C4_RegisteredBeforePublish ==
    /\ \A i \in 1..Len(log) : log[i] = "publish" => RegisteredBefore(i)
    /\ upload_id \in published => current_upload_id = upload_id
    /\ nDeliv > 0 => RegisteredBefore(Len(log) + 1)

C4_Witness ==
    /\ upload_id \in published
    /\ received_response
    /\ ValidReply(upload_response, upload_id)

(***************************************************************************)
(* C5: if the publish succeeded, a reply with the sent upload_id and a     *)
(* presigned_url was delivered in time, and the PUT returned 200, then     *)
(* upload_axf_file returns True.  Checked in two parts: a PUT answered     *)
(* with 200 always ends in True; and when the only message of the run is   *)
(* such a reply and it ended the wait, the transfer is made to that        *)
(* reply's url and nothing but the transfer decides the result.            *)
(***************************************************************************)
C5_ValidReplyAnd200Succeeds ==
    /\ (Returned /\ s3Status = HTTP_OK) => result = "True"
    /\ (Returned /\ nDeliv = 1 /\ ValidReply(json_loads(lastMsg).value, upload_id)
          /\ reason \notin {"Timeout", "PublishError", "FileNotFound"})
         => /\ reason \in {"Success", "TransferFailed"}
            /\ s3Calls = {json_loads(lastMsg).value.presigned_url}

C5_Witness ==
    /\ Returned
    /\ upload_id \in published
    /\ ValidReply(resolver, upload_id)
    /\ s3Status = HTTP_OK
    /\ result = "True"

(***************************************************************************)
(* C6: if the request was published and no message turned the event flag   *)
(* on before the wait ended, upload_axf_file returns False by the timeout  *)
(* branch and upload_file_to_s3 is never invoked.                          *)
(***************************************************************************)
C6_NoReplyTimesOut ==
    (Returned /\ upload_id \in published /\ ~Resolved)
        => (result = "False" /\ reason = "Timeout" /\ s3Calls = {})

C6_Witness ==
    /\ Returned
    /\ upload_id \in published
    /\ nDeliv = 0
    /\ reason = "Timeout"

(***************************************************************************)
(* C7: if the reply that turns the event flag on has no presigned_url,     *)
(* upload_axf_file returns False and upload_file_to_s3 is never invoked.   *)
(* Refuted for the same reason as C1.                                      *)
(***************************************************************************)
C7_NoUrlResolverFails ==
    (Resolved /\ HasUrlKey(resolver) # "ok")
        => (s3Calls = {} /\ (Returned => result = "False"))

(***************************************************************************)
(* C8: every exit of an upload attempt is followed by the release of the   *)
(* correlation (the registration of lines 229-240 is removed), the session *)
(* teardown and the removal of the staged credential files.                *)
(* Refuted: nothing in the program removes the registration, and a         *)
(* KeyboardInterrupt after the return skips client.cleanup().              *)
(***************************************************************************)
C8_ExitReleasesAndTearsDown ==
    (pc = "done" /\ Returned)
        => /\ current_upload_id = NoId
           /\ mqtt_client # None => TornDown
           /\ files = {}

(***************************************************************************)
(* C9: when a KeyboardInterrupt arrives while the orchestrator is blocked  *)
(* in the wait of line 249, the session is torn down and the ephemeral     *)
(* credential files are removed before the process ends.                   *)
(* Refuted: the handler of line 409 only logs; client.cleanup() is         *)
(* skipped.                                                                *)
(***************************************************************************)
C9_InterruptedWaitStillCleansUp ==
    (pc = "done" /\ interrupted /\ intPc = "in_upload" /\ intUpc = "wait")
        => (TornDown /\ files = {})

C11_FailureExitsNonZero ==
    (exit_code # None /\ (ids = "missing" \/ result = "False")) => exit_code # "0"


\* a statement of upload_axf_file that the calling thread completes by itself
\* or within a deadline of its own: every step but the return of requests.put
OrchestratorStep ==
    \/ CheckFile
    \/ ClearEvent
    \/ ClearResult
    \/ SetCurrentId
    \/ SetupSession
    \/ Subscribe
    \/ Publish
    \/ WaitSignaled
    \/ WaitTimeout
    \/ CheckTruthy
    \/ CheckUrlKey
    \/ CheckId
    \/ ReadUrl
    \/ TransferSend
    \/ ReturnTrue

\* C12: no step of an upload attempt can block indefinitely: at every point
\* of an attempt the calling thread can go on without the reply arriving and
\* without the remote endpoint answering, so the attempt ends with a result.
C12_NoStepBlocksForever ==
    pc = "in_upload" => ENABLED OrchestratorStep


\* C13: when the subscribe of line 240 fails (a return code other than
\* success included), the attempt returns failure and the request of this
\* attempt is not published.
C13_SubscribeFailureAborts ==
    subFailed => (upload_id \notin published /\ (Returned => result = "False"))


\* the step that executes the subscribe call of line 240
SubscribeCall == Len(log') = Len(log) + 1 /\ log'[Len(log')] = "subscribe"

\* the step that executes the publish call of line 142
PublishCall == pubCalls' = pubCalls + 1

\* C14: when establishing the session fails, by connect raising or by the
\* broker reporting a non-zero return code to _on_connect, the attempt
\* returns failure and makes no subscribe call and no publish call.
C14_FailedSessionAborts ==
    /\ [][(connack = "refused" \/ (mqtt_client # None /\ connack = "none"))
            => (~SubscribeCall /\ ~PublishCall)]_vars
    /\ [][(connack = "refused" /\ upc' = "returned") => result' = "False"]_vars


\* C15: a payload that is not JSON is logged and discarded by _on_message:
\* the handler returns normally to the loop thread, which keeps running, the
\* event flag is not set and upload_response is not written.
C15_UnparseableDiscarded ==
    [][(TakesMessage /\ lastMsg'.text = "garbage")
        => /\ received_response' = received_response
           /\ upload_response' = upload_response
           /\ writes' = writes
           /\ mpc' = "idle"
           /\ loop_running' = loop_running]_vars

C15_Witness ==
    /\ lastMsg.text = "garbage"
    /\ InUpload("wait")
    /\ ~received_response
    /\ loop_running


\* C16: when the file to upload does not exist, upload_axf_file returns
\* failure before any network activity: the session is not set up, and no
\* subscribe, no publish and no transfer is made in that attempt.
C16_MissingFileNoNetwork ==
    ~fileExists =>
        /\ mqtt_client = None
        /\ ~sock
        /\ connack = "none"
        /\ \A i \in 1..Len(log) : log[i] \notin {"subscribe", "publish"}
        /\ subs = {}
        /\ pubCalls = 0
        /\ published = {}
        /\ s3Calls = {}
        /\ Returned => (result = "False" /\ reason = "FileNotFound")

C16_Witness ==
    /\ ~fileExists
    /\ Returned
    /\ result = "False"


\* C17: under any interleaving of _on_message with the orchestrator, the url
\* handed to upload_file_to_s3 is that of the payload which passed the checks
\* of lines 254 and 259; a message stored between the checks and the read of
\* line 264 does not change the url used.
C17_UrlOfValidatedReply ==
    /\ presigned_url # None
          => (ValidReply(validated, upload_id) /\ presigned_url = validated.presigned_url)
    /\ \A u \in s3Calls : u = validated.presigned_url


\* the flag is on while the orchestrator is at the wait() of line 249: a
\* payload was signaled after the clear() of line 229 and before wait() ends
SignaledBeforeWaitEnds == InUpload("wait") /\ received_response

C18_SignaledImpliesStored ==
    received_response => upload_response # PyNone

\* setup_mqtt_client ran to its end: connect returned and the loop thread
\* was started (lines 90-95)
SetupCompleted == connack # "none"

\* C20: after setup_mqtt_client failed in one attempt, a later call of
\* upload_axf_file on the same client sets the session up again; the
\* subscribe and publish calls are only made on a session whose setup
\* completed.
C20_FailedHandleNotReused ==
    /\ [][(SubscribeCall \/ PublishCall) => SetupCompleted]_vars
    /\ [][(InUpload("setup") /\ ~SetupCompleted /\ upc' = After("setup"))
            => SetupCompleted']_vars

====
